---- MODULE Spec2Model ----
(***************************************************************************)
(* Model of seller-apis: src/seller.py (Ozon) and src/market.py (Yandex    *)
(* Market).  The transform-and-batch core (price_conversion, divide,       *)
(* create_stocks, create_prices), the pagination loops (get_offer_ids) and *)
(* the two orchestrators (main) are translated from the Python source.     *)
(*                                                                         *)
(* Python strings that the code inspects character by character (the       *)
(* quantity and the price of a supplier record) are sequences of           *)
(* one-character strings; the Cyrillic letters of "руб." are written       *)
(* "r","u","b".  Product codes are only compared, so they stay atoms.      *)
(* The keys "Код", "Количество", "Цена" of a supplier record are the       *)
(* fields code, quantity, price.                                           *)
(***************************************************************************)
EXTENDS Integers, Sequences, FiniteSets, TLC

VARIABLES
    \* ---- a run of main (Spec)
    program,          \* "seller" | "market": whose main runs ("off": none)
    m_watch_remnants, \* main's watch_remnants: what download_stock() returned
    pc,               \* where main is
    campaign,         \* the account main is working on: "ozon" | "FBS" | "DBS"
    page,             \* get_offer_ids: last_id (seller.py), page (market.py)
    total,            \* get_offer_ids of seller.py: total of the last page
    pages,            \* list requests made by the current get_offer_ids
    product_list,     \* get_offer_ids: the items accumulated
    m_offer_ids,      \* main's offer_ids list
    batches,          \* the chunks the current for loop has yet to send
    requests,         \* history: the marketplace requests issued, in order
    raised,           \* the exception raised inside main's try, or "none"
    reported,         \* what main's except clause printed, or "none"
    built,            \* history: per account, the lists main has built
    \* ---- harness of create_stocks / create_prices (SpecBuilder)
    b_variant,        \* "seller" | "market": which module's builders are called
    b_remnants,       \* watch_remnants: the supplier records
    b_given,          \* the offer_ids list as it was when the first call was made
    b_offer_ids,      \* the offer_ids list object the caller holds and passes
    b_hist,           \* the calls made so far: <<[fn, raised, ret], ...>>
    \* ---- harness of price_conversion (SpecPrice)
    c_price,          \* the argument
    c_called,         \* whether price_conversion has been called
    c_ret,            \* the returned string
    \* ---- harness of divide (SpecDivide)
    d_lst, d_n,       \* the arguments
    d_called,         \* whether divide has been called and consumed
    d_ret             \* list(divide(lst, n))

bvars == <<b_variant, b_remnants, b_given, b_offer_ids, b_hist>>
cvars == <<c_price, c_called, c_ret>>
dvars == <<d_lst, d_n, d_called, d_ret>>
ovars == <<program, m_watch_remnants, pc, campaign, page, total, pages,
           product_list, m_offer_ids, batches, requests, raised, reported,
           built>>
vars == <<ovars, bvars, cvars, dvars>>

\* What a call gives: the value it returns, or the ValueError it raises.
Returns(v) == [raised |-> FALSE, value |-> v]
Raises == [raised |-> TRUE, value |-> <<>>]

(***************************************************************************)
(* Bounds of the model.                                                    *)
(***************************************************************************)
MaxRemnants == 2      \* supplier records in a builder call
MaxOffers == 3        \* offer identifiers in a builder call
MaxCalls == 2         \* builder calls on the same arguments
MaxPages == 2         \* list requests of one get_offer_ids call
MaxPriceLen == 4      \* characters of an enumerated price string
MaxLen == 4           \* items of a list handed to divide
MaxChunk == 3         \* chunk size handed to divide

Min(a, b) == IF a <= b THEN a ELSE b

\* All sequences over S of length at most n.
SeqsUpTo(S, n) == UNION {[1..k -> S] : k \in 0..n}

(***************************************************************************)
(* Python primitives the code uses.                                        *)
(***************************************************************************)
Digits == {"0", "1", "2", "3", "4", "5", "6", "7", "8", "9"}

DigitVal(ch) ==
    CASE ch = "0" -> 0 [] ch = "1" -> 1 [] ch = "2" -> 2 [] ch = "3" -> 3
      [] ch = "4" -> 4 [] ch = "5" -> 5 [] ch = "6" -> 6 [] ch = "7" -> 7
      [] ch = "8" -> 8 [] ch = "9" -> 9

\* x in lst
Contains(lst, x) == \E i \in 1..Len(lst) : lst[i] = x

\* A slip remove could have: the list left as it is.
RemoveNothing(lst, x) == lst

\* lst.remove(x): drops the first occurrence of x (x is in lst at every call).
Remove(lst, x) ==
    LET i == CHOOSE j \in 1..Len(lst) :
                 lst[j] = x /\ \A k \in 1..(j - 1) : lst[k] # x
    IN  SubSeq(lst, 1, i - 1) \o SubSeq(lst, i + 1, Len(lst))

\* A slip the slice could have: the item at index b taken too.
SliceInclusive(lst, a, b) ==
    SubSeq(lst, Min(a, Len(lst)) + 1, Min(b + 1, Len(lst)))

\* lst[a:b] for 0 <= a <= b: the slice is clamped to the list.
Slice(lst, a, b) == SubSeq(lst, Min(a, Len(lst)) + 1, Min(b, Len(lst)))

\* int(s) of a string of the characters used here (digits, and characters
\* int() rejects): the decimal value; ValueError is raised for the empty
\* string and for a string with a character that is no digit.
RECURSIVE DecimalValue(_, _)
DecimalValue(s, acc) ==
    IF s = <<>> THEN acc
    ELSE DecimalValue(Tail(s), 10 * acc + DigitVal(Head(s)))

int(s) ==
    IF s = <<>> \/ \E i \in 1..Len(s) : s[i] \notin Digits
    THEN Raises
    ELSE Returns(DecimalValue(s, 0))

(***************************************************************************)
(* price_conversion: re.sub("[^0-9]", "", price.split(".")[0])             *)
(***************************************************************************)
\* price.split("."): the pieces between the dots, at least one piece.
RECURSIVE split(_, _)
split(s, sep) ==
    IF \A i \in 1..Len(s) : s[i] # sep THEN <<s>>
    ELSE LET i == CHOOSE j \in 1..Len(s) :
                      s[j] = sep /\ \A k \in 1..(j - 1) : s[k] # sep
         IN  <<SubSeq(s, 1, i - 1)>> \o split(SubSeq(s, i + 1, Len(s)), sep)

\* re.sub("[^0-9]", "", s): every character outside 0-9 replaced by nothing.
RECURSIVE sub_non_digits(_)
sub_non_digits(s) ==
    IF s = <<>> THEN <<>>
    ELSE IF Head(s) \in Digits THEN <<Head(s)>> \o sub_non_digits(Tail(s))
    ELSE sub_non_digits(Tail(s))

\* A slip price_conversion could have: the digits of the whole string.
price_conversion_no_split(price) == sub_non_digits(price)

price_conversion(price) == sub_non_digits(split(price, ".")[1])

(***************************************************************************)
(* divide: for i in range(0, len(lst), n): yield lst[i : i + n]            *)
(***************************************************************************)
RECURSIVE divide_from(_, _, _)
divide_from(lst, n, i) ==
    IF i >= Len(lst) THEN <<>>
    ELSE <<Slice(lst, i, i + n)>> \o divide_from(lst, n, i + n)

\* list(divide(lst, n)): the chunks in the order the generator yields them.
divide(lst, n) == divide_from(lst, n, 0)

(***************************************************************************)
(* create_stocks                                                           *)
(***************************************************************************)
\* A slip the policy could have: no branch for the quantity "1".
stock_count_no_one(quantity) ==
    IF quantity = <<">", "1", "0">> THEN Returns(100) ELSE int(quantity)

\* The stock policy of both variants (seller.py 170-176, market.py 153-159).
stock_count(quantity) ==
    IF quantity = <<">", "1", "0">> THEN Returns(100)
    ELSE IF quantity = <<"1">> THEN Returns(0)
    ELSE int(quantity)

seller_stock(offer_id, stock) == [offer_id |-> offer_id, stock |-> stock]

market_stock(sku, warehouse_id, count, date) ==
    [sku |-> sku, warehouseId |-> warehouse_id,
     items |-> <<[count |-> count, type |-> "FIT", updatedAt |-> date]>>]

\* The record either variant appends; seller.py takes no warehouse and no date.
stock_record(variant, id, count, warehouse_id, date) ==
    IF variant = "seller" THEN seller_stock(id, count)
    ELSE market_stock(id, warehouse_id, count, date)

\* The first loop: st = [stocks, offer_ids, raised] after the records from k on.
\* A quantity int() rejects raises out of the call, offer_ids left as it is then.
RECURSIVE stocks_loop(_, _, _, _, _, _)
stocks_loop(variant, watch_remnants, warehouse_id, date, k, st) ==
    IF k > Len(watch_remnants) THEN st
    ELSE LET watch == watch_remnants[k] IN
         IF ~Contains(st.offer_ids, watch.code)
         THEN stocks_loop(variant, watch_remnants, warehouse_id, date, k + 1, st)
         ELSE LET stock == stock_count(watch.quantity) IN
              IF stock.raised THEN [st EXCEPT !.raised = TRUE]
              ELSE stocks_loop(variant, watch_remnants, warehouse_id, date, k + 1,
                     [stocks    |-> Append(st.stocks,
                                      stock_record(variant, watch.code, stock.value,
                                                   warehouse_id, date)),
                      offer_ids |-> Remove(st.offer_ids, watch.code),
                      raised    |-> FALSE])

\* The second loop: a zero record for every identifier left in offer_ids.
missing_stocks(variant, offer_ids, warehouse_id, date) ==
    [i \in 1..Len(offer_ids) |->
        stock_record(variant, offer_ids[i], 0, warehouse_id, date)]

\* create_stocks as a whole: [raised, value, offer_ids], value the returned
\* list, offer_ids the caller's list as the call leaves it.
create_stocks(variant, watch_remnants, offer_ids, warehouse_id, date) ==
    LET st == stocks_loop(variant, watch_remnants, warehouse_id, date, 1,
                          [stocks |-> <<>>, offer_ids |-> offer_ids,
                           raised |-> FALSE])
    IN  IF st.raised
        THEN [raised |-> TRUE, value |-> <<>>, offer_ids |-> st.offer_ids]
        ELSE [raised |-> FALSE,
              value |-> st.stocks \o missing_stocks(variant, st.offer_ids,
                                                    warehouse_id, date),
              offer_ids |-> st.offer_ids]

(***************************************************************************)
(* create_prices                                                           *)
(***************************************************************************)
seller_price(watch) ==
    [auto_action_enabled |-> "UNKNOWN", currency_code |-> "RUB",
     offer_id |-> watch.code, old_price |-> "0",
     price |-> price_conversion(watch.price)]

\* market.py converts the digit string with int(): ValueError when it is empty.
market_price(watch) ==
    LET value == int(price_conversion(watch.price)) IN
    IF value.raised THEN Raises
    ELSE Returns([id |-> watch.code,
                  price |-> [value |-> value.value, currencyId |-> "RUR"]])

price_record(variant, watch) ==
    IF variant = "seller" THEN Returns(seller_price(watch))
    ELSE market_price(watch)

RECURSIVE prices_loop(_, _, _, _, _)
prices_loop(variant, watch_remnants, offer_ids, k, prices) ==
    IF k > Len(watch_remnants) THEN prices
    ELSE LET watch == watch_remnants[k] IN
         IF ~Contains(offer_ids, watch.code)
         THEN prices_loop(variant, watch_remnants, offer_ids, k + 1, prices)
         ELSE LET price == price_record(variant, watch) IN
              IF price.raised THEN Raises
              ELSE prices_loop(variant, watch_remnants, offer_ids, k + 1,
                               Returns(Append(prices.value, price.value)))

\* create_prices: the returned list, or ValueError raised; offer_ids is only
\* read.
create_prices(variant, watch_remnants, offer_ids) ==
    prices_loop(variant, watch_remnants, offer_ids, 1, Returns(<<>>))

(***************************************************************************)
(* Inputs of the harnesses.                                                *)
(***************************************************************************)
Variants == {"seller", "market"}
Codes == {"A", "B", "C"}            \* offer identifiers of the marketplace
SupplierCodes == {"A", "B"}         \* codes the supplier feed carries

\* (quantity, price) pairs of the supplier feed: the three policy cases, a
\* quantity int() rejects, and a price with no digit before its first dot.
\* "1'2.0" and "9.0 r" stand for prices such as "5'990.00 руб.".
FeedRows ==
    { [quantity |-> <<">", "1", "0">>, price |-> <<"1", "'", "2", ".", "0">>],
      [quantity |-> <<"1">>,           price |-> <<"9", ".", "0", " ", "r">>],
      [quantity |-> <<"1", "5">>,      price |-> <<".", "5">>],
      [quantity |-> <<"x">>,           price |-> <<"7">>] }

Watches ==
    { [code |-> c, quantity |-> row.quantity, price |-> row.price] :
        c \in SupplierCodes, row \in FeedRows }

Dates == {"t0", "t1"}       \* utcnow() to the second: at the first call, later
Warehouse == "wh"           \* the warehouse_id handed to market.create_stocks

(***************************************************************************)
(* SpecBuilder: create_stocks and create_prices called, up to MaxCalls     *)
(* times, by a caller that holds one offer_ids list and passes it to every *)
(* call, as main and upload_* do.                                          *)
(***************************************************************************)
Campaigns == {"ozon", "FBS", "DBS"}
NothingBuilt ==
    [a \in Campaigns |->
        [offer_ids |-> <<>>, resolved |-> FALSE, stocks |-> <<>>,
         stocked |-> FALSE, prices |-> <<>>, priced |-> FALSE]]

OIdle ==
    /\ program = "off" /\ m_watch_remnants = <<>> /\ pc = "off"
    /\ campaign = "ozon" /\ page = "" /\ total = 0 /\ pages = 0
    /\ product_list = <<>> /\ m_offer_ids = <<>> /\ batches = <<>>
    /\ requests = <<>> /\ raised = "none" /\ reported = "none"
    /\ built = NothingBuilt
CIdle == c_price = <<>> /\ c_called = FALSE /\ c_ret = <<>>
DIdle == d_lst = <<>> /\ d_n = 1 /\ d_called = FALSE /\ d_ret = <<>>
BIdle ==
    /\ b_variant = "seller" /\ b_remnants = <<>> /\ b_given = <<>>
    /\ b_offer_ids = <<>> /\ b_hist = <<>>

InitBuilder ==
    /\ b_variant \in Variants
    /\ b_remnants \in SeqsUpTo(Watches, MaxRemnants)
    /\ b_given \in SeqsUpTo(Codes, MaxOffers)
    /\ b_offer_ids = b_given
    /\ b_hist = <<>>
    /\ OIdle /\ CIdle /\ DIdle

CallCreateStocks ==
    /\ Len(b_hist) < MaxCalls
    /\ \E date \in (IF b_variant = "seller" \/ b_hist = <<>>
                    THEN {"t0"} ELSE Dates) :
         LET r == create_stocks(b_variant, b_remnants, b_offer_ids,
                                Warehouse, date)
         IN  /\ b_offer_ids' = r.offer_ids
             /\ b_hist' = Append(b_hist, [fn |-> "create_stocks",
                                          raised |-> r.raised, ret |-> r.value])
    /\ UNCHANGED <<b_variant, b_remnants, b_given, ovars, cvars, dvars>>

CallCreatePrices ==
    /\ Len(b_hist) < MaxCalls
    /\ LET r == create_prices(b_variant, b_remnants, b_offer_ids)
       IN  b_hist' = Append(b_hist, [fn |-> "create_prices",
                                     raised |-> r.raised, ret |-> r.value])
    /\ UNCHANGED <<b_variant, b_remnants, b_given, b_offer_ids, ovars, cvars,
                   dvars>>

NextBuilder == CallCreateStocks \/ CallCreatePrices

SpecBuilder == InitBuilder /\ [][NextBuilder]_vars

(***************************************************************************)
(* Claims about create_stocks and create_prices (under SpecBuilder).       *)
(***************************************************************************)
\* The identifier and the count a stock record of the called variant carries.
StockId(rec) == IF b_variant = "seller" THEN rec.offer_id ELSE rec.sku
StockCount(rec) ==
    IF b_variant = "seller" THEN rec.stock ELSE rec.items[1].count

Distinct(lst) == \A i, j \in 1..Len(lst) : lst[i] = lst[j] => i = j
Occurrences(lst, x) == Cardinality({i \in 1..Len(lst) : lst[i] = x})

\* The first call was create_stocks and it returned a list.
FirstStocksReturned ==
    /\ b_hist # <<>>
    /\ b_hist[1].fn = "create_stocks"
    /\ ~b_hist[1].raised

\* The first supplier record that carries code c.
FirstRecordOf(c) ==
    b_remnants[CHOOSE k \in 1..Len(b_remnants) :
                  /\ b_remnants[k].code = c
                  /\ \A j \in 1..(k - 1) : b_remnants[j].code # c]

\* C1: for distinct known offer identifiers, the list create_stocks returns
\* holds every known identifier exactly once and no other identifier; an
\* identifier some supplier record carries has the policy count of the first
\* such record, every other identifier has stock 0.
C1_StocksCoverOffers ==
    (FirstStocksReturned /\ Distinct(b_given)) =>
        LET ret == b_hist[1].ret IN
        /\ \A c \in Codes :
              Occurrences([i \in 1..Len(ret) |-> StockId(ret[i])], c)
                = IF Contains(b_given, c) THEN 1 ELSE 0
        /\ \A i \in 1..Len(ret) :
              LET c == StockId(ret[i]) IN
              IF \E k \in 1..Len(b_remnants) : b_remnants[k].code = c
              THEN StockCount(ret[i])
                     = stock_count(FirstRecordOf(c).quantity).value
              ELSE StockCount(ret[i]) = 0

\* C1's case: two supplier records of one code with different quantities, a
\* matched and an unmatched identifier, in the market variant.
C1_Witness ==
    /\ FirstStocksReturned /\ Distinct(b_given)
    /\ b_variant = "market"
    /\ b_given = <<"C", "A">>
    /\ Len(b_remnants) = 2
    /\ b_remnants[1].code = "A" /\ b_remnants[2].code = "A"
    /\ b_remnants[1].quantity = <<"1", "5">>
    /\ b_remnants[2].quantity = <<">", "1", "0">>
    /\ b_hist[1].ret = <<market_stock("A", Warehouse, 15, "t0"),
                         market_stock("C", Warehouse, 0, "t0")>>

\* The count the stock policy prescribes for the quantities of FeedRows that
\* have one, written out.
PolicyCount(quantity) ==
    CASE quantity = <<">", "1", "0">> -> 100
      [] quantity = <<"1">> -> 0
      [] quantity = <<"1", "5">> -> 15

\* The supplier records among idx, as (code, policy count) pairs in feed order.
Emitted(idx) ==
    [j \in 1..Cardinality(idx) |->
        LET k == CHOOSE m \in idx : Cardinality({n \in idx : n < m}) = j - 1
        IN  <<b_remnants[k].code, PolicyCount(b_remnants[k].quantity)>>]

\* The list create_stocks returned starts with the records emitted for idx.
StartsWithEmitted(ret, idx) ==
    /\ Len(ret) >= Cardinality(idx)
    /\ \A j \in 1..Cardinality(idx) :
          <<StockId(ret[j]), StockCount(ret[j])>> = Emitted(idx)[j]

\* C8 as stated: every supplier record whose code is among the identifiers
\* given to create_stocks emits its policy count (the quantities being ">10",
\* "1" or an integer).
C8_EveryMatchedRecordEmits ==
    (/\ FirstStocksReturned
     /\ \A k \in 1..Len(b_remnants) : b_remnants[k].quantity # <<"x">>) =>
        StartsWithEmitted(b_hist[1].ret,
            {k \in 1..Len(b_remnants) : Contains(b_given, b_remnants[k].code)})

\* The records that find their code still in offer_ids: the code occurs in
\* the given list more often than among the earlier supplier records.
StillListed ==
    {k \in 1..Len(b_remnants) :
        Cardinality({j \in 1..(k - 1) : b_remnants[j].code = b_remnants[k].code})
          < Occurrences(b_given, b_remnants[k].code)}

\* C8 (amended): exactly the supplier records whose code is still in
\* offer_ids when they are reached emit a record, with 100 for ">10", 0 for
\* "1" and the integer value otherwise; all other records of the returned
\* list are the zero records of the identifiers left over.
C8_ListedRecordEmits ==
    FirstStocksReturned =>
        LET ret == b_hist[1].ret IN
        /\ StartsWithEmitted(ret, StillListed)
        /\ Len(ret) = Len(b_given)
        /\ \A i \in (Cardinality(StillListed) + 1)..Len(ret) :
              StockCount(ret[i]) = 0

\* C8's case: identifiers A, B, C and the supplier records A ">10", B "1":
\* the returned stocks are A 100, B 0, C 0.
C8_Witness ==
    /\ FirstStocksReturned
    /\ b_variant = "seller"
    /\ b_given = <<"A", "B", "C">>
    /\ Len(b_remnants) = 2
    /\ b_remnants[1].code = "A" /\ b_remnants[1].quantity = <<">", "1", "0">>
    /\ b_remnants[2].code = "B" /\ b_remnants[2].quantity = <<"1">>
    /\ b_hist[1].ret = <<seller_stock("A", 100), seller_stock("B", 0),
                         seller_stock("C", 0)>>

\* C7: every call of create_stocks and of create_prices by a caller that
\* passes the same supplier records and the same offer_ids list returns what
\* the function returns on the records and the list as first given (the
\* second of two create_stocks calls, a create_prices call after
\* create_stocks); the timestamp of market.py's records is left free.
C7_SameOutputOnSameInput ==
    \A i \in 1..Len(b_hist) :
        IF b_hist[i].fn = "create_stocks"
        THEN \E date \in Dates :
                LET r == create_stocks(b_variant, b_remnants, b_given,
                                       Warehouse, date)
                IN  b_hist[i].raised = r.raised /\ b_hist[i].ret = r.value
        ELSE LET r == create_prices(b_variant, b_remnants, b_given)
             IN  b_hist[i].raised = r.raised /\ b_hist[i].ret = r.value

\* C10: create_prices, called on a list that holds the code of a supplier
\* record whose price has no digit before its first dot, returns without a
\* parse error.
C10_EmptyPriceNotParsed ==
    (/\ b_hist # <<>>
     /\ b_hist[1].fn = "create_prices"
     /\ \E k \in 1..Len(b_remnants) :
           /\ Contains(b_given, b_remnants[k].code)
           /\ price_conversion(b_remnants[k].price) = <<>>)
    => ~b_hist[1].raised

(***************************************************************************)
(* SpecPrice: price_conversion called on a price string.                   *)
(***************************************************************************)
PriceChars == {"5", "9", "0", "'", ".", " ", "r"}

\* "5'990.00 руб." and "199.00 руб."
PriceExample1 ==
    <<"5", "'", "9", "9", "0", ".", "0", "0", " ", "r", "u", "b", ".">>
PriceExample2 == <<"1", "9", "9", ".", "0", "0", " ", "r", "u", "b", ".">>

InitPrice ==
    /\ c_price \in SeqsUpTo(PriceChars, MaxPriceLen)
                      \cup {PriceExample1, PriceExample2}
    /\ c_called = FALSE
    /\ c_ret = <<>>
    /\ OIdle /\ BIdle /\ DIdle

CallPriceConversion ==
    /\ ~c_called
    /\ c_called' = TRUE
    /\ c_ret' = price_conversion(c_price)
    /\ UNCHANGED <<c_price, ovars, bvars, dvars>>

NextPrice == CallPriceConversion

SpecPrice == InitPrice /\ [][NextPrice]_vars

IsDigit(ch) == ch \in Digits

\* The part of s before its first dot, the whole of s when it has none.
IntegerPart(s) ==
    LET dots == {i \in 1..Len(s) : s[i] = "."} IN
    IF dots = {} THEN s
    ELSE SubSeq(s, 1, (CHOOSE i \in dots : \A j \in dots : i <= j) - 1)

\* C9: price_conversion returns the digits, in order, of the part of the
\* string before its first dot: "5990" and "199" for the two examples, the
\* empty string when that part has no digit.
C9_DigitsOfIntegerPart ==
    c_called =>
        /\ c_ret = SelectSeq(IntegerPart(c_price), IsDigit)
        /\ c_price = PriceExample1 => c_ret = <<"5", "9", "9", "0">>
        /\ c_price = PriceExample2 => c_ret = <<"1", "9", "9">>
        /\ (\A i \in 1..Len(IntegerPart(c_price)) :
               IntegerPart(c_price)[i] \notin Digits) => c_ret = <<>>

\* C9's case: "5'990.00 руб." converted to "5990".
C9_Witness ==
    c_called /\ c_price = PriceExample1 /\ c_ret = <<"5", "9", "9", "0">>

(***************************************************************************)
(* SpecDivide: list(divide(lst, n)) for a list and a chunk size n > 0.     *)
(***************************************************************************)
Items == {"a", "b"}

InitDivide ==
    /\ d_lst \in SeqsUpTo(Items, MaxLen)
    /\ d_n \in 1..MaxChunk
    /\ d_called = FALSE
    /\ d_ret = <<>>
    /\ OIdle /\ BIdle /\ CIdle

CallDivide ==
    /\ ~d_called
    /\ d_called' = TRUE
    /\ d_ret' = divide(d_lst, d_n)
    /\ UNCHANGED <<d_lst, d_n, ovars, bvars, cvars>>

NextDivide == CallDivide

SpecDivide == InitDivide /\ [][NextDivide]_vars

RECURSIVE Concat(_)
Concat(chunks) ==
    IF chunks = <<>> THEN <<>> ELSE Head(chunks) \o Concat(Tail(chunks))

CeilDiv(a, b) == IF a % b = 0 THEN a \div b ELSE (a \div b) + 1

\* C4: the chunks of divide(lst, n), concatenated in order, are lst; there
\* are ceil(L/n) of them; each but the last has n items and the last has
\* between 1 and n.
C4_ChunksPartitionList ==
    d_called =>
        /\ Concat(d_ret) = d_lst
        /\ Len(d_ret) = CeilDiv(Len(d_lst), d_n)
        /\ \A i \in 1..(Len(d_ret) - 1) : Len(d_ret[i]) = d_n
        /\ d_ret # <<>> =>
              /\ Len(d_ret[Len(d_ret)]) >= 1
              /\ Len(d_ret[Len(d_ret)]) <= d_n

\* C4's case: four items in chunks of three, the last chunk shorter.
C4_Witness ==
    /\ d_called
    /\ Len(d_lst) = 4 /\ d_n = 3
    /\ d_ret = <<SubSeq(d_lst, 1, 3), SubSeq(d_lst, 4, 4)>>

(***************************************************************************)
(* Spec: one run of main, of seller.py (the Ozon account) or of market.py  *)
(* (the FBS and then the DBS campaign), against marketplaces that answer   *)
(* each request as they like or fail it.                                   *)
(***************************************************************************)
ListedCodes == {"X", "Y"}

\* The chunk sizes main hands to divide, and the one upload_prices of
\* market.py hands to it.
SellerStocksLimit == 100
SellerPricesLimit == 900
MarketStocksLimit == 2000
MarketPricesLimit == 500

\* What download_stock() may return: the records X "5" "100.00 руб."; X ">10"
\* "5'990.00 руб." and Y "1" "199.00 руб."; and a record whose quantity is
\* no integer.
Feeds ==
    { <<[code |-> "X", quantity |-> <<"5">>,
         price |-> <<"1", "0", "0", ".", "0", "0", " ", "r", "u", "b", ".">>]>>,
      <<[code |-> "X", quantity |-> <<">", "1", "0">>, price |-> PriceExample1],
        [code |-> "Y", quantity |-> <<"1">>, price |-> PriceExample2]>>,
      <<[code |-> "Y", quantity |-> <<"x">>, price |-> <<"7">>]>> }

\* A page of a list endpoint carries no product or one.  The code does not
\* rely on the marketplace listing an identifier once, and neither do the
\* pages: two pages may carry the same product.
PageCodes == {<<>>} \cup {<<c>> : c \in ListedCodes}

\* The first page of a listing may also be a long one, of one product more
\* than a stock request of the program takes.  Nothing in the code rests on
\* the page size it asks for, and the pages do not honour it.
LongPage(prog) ==
    [i \in 1..(IF prog = "seller" THEN SellerStocksLimit + 1
                                  ELSE MarketStocksLimit + 1) |-> "Y"]

\* The pages a list request may be answered with: the long page comes first
\* in a listing, and in market.py for the FBS campaign, whose stocks loop is
\* the one the DBS campaign repeats.
PagesFor(prog, camp, asked) ==
    PageCodes \cup (IF asked = 0 /\ camp # "DBS" THEN {LongPage(prog)} ELSE {})

seller_item(c) == [offer_id |-> c]
market_entry(c) == [offer |-> [shopSku |-> c]]

\* paging.nextPageToken of a market.py page: empty, absent (None), or a token.
None == "<None>"
Tokens == {"", None, "p2"}
\* not page
Falsy(x) == x = None \/ x = ""

\* A slip main of seller.py could have: the chunk size of market.py.
stocks_limit_of_market(prog) == MarketStocksLimit

\* The chunk size of the stocks loop of main: divide(stocks, 100) in
\* seller.py, divide(stocks, 2000) in market.py.
stocks_limit(prog) ==
    IF prog = "seller" THEN SellerStocksLimit ELSE MarketStocksLimit

warehouse_id(camp) == IF camp = "FBS" THEN "wh_fbs" ELSE "wh_dbs"

\* What a failed request raises: response.raise_for_status() an HTTPError,
\* the transport a ReadTimeout or a ConnectionError.
RequestErrors == {"ReadTimeout", "ConnectionError", "HTTPError"}

\* The except clauses of main: what is printed for an exception.
report(exc) ==
    CASE exc = "ReadTimeout" -> "timeout"
      [] exc = "ConnectionError" -> "connection error"
      [] OTHER -> "ERROR_2"

\* A slip the except clauses could have: the failed step tried again.
except_pc_retry(at) == at

\* Where main is after an except clause has run: at its end.
except_pc(at) == "done"

\* An exception raised inside the try block of main.
Except(exc) ==
    /\ raised' = exc
    /\ reported' = report(exc)
    /\ pc' = except_pc(pc)

\* One request sent to the marketplace.
Issue(op, body) ==
    requests' = Append(requests,
                       [op |-> op, campaign |-> campaign, body |-> body])

\* main has read its environment.  m_watch_remnants is what the supplier
\* serves in this run: market.py downloads it before the try block, seller.py
\* inside it, after get_offer_ids.
Init ==
    /\ program \in Variants
    /\ m_watch_remnants \in Feeds
    /\ pc = "get_offer_ids"
    /\ campaign = IF program = "seller" THEN "ozon" ELSE "FBS"
    /\ page = "" /\ total = 0 /\ pages = 0
    /\ product_list = <<>> /\ m_offer_ids = <<>> /\ batches = <<>>
    /\ requests = <<>> /\ raised = "none" /\ reported = "none"
    /\ built = NothingBuilt
    /\ BIdle /\ CIdle /\ DIdle

\* get_offer_ids returns ids to main.
ReturnOfferIds(ids) ==
    /\ m_offer_ids' = ids
    /\ built' = [built EXCEPT ![campaign].offer_ids = ids,
                              ![campaign].resolved = TRUE]
    /\ pc' = "create_stocks"

\* seller.py: one turn of the while loop of get_offer_ids, the request
\* answered with a page and a total.
SellerGetProductList ==
    /\ program = "seller" /\ pc = "get_offer_ids" /\ pages < MaxPages
    /\ Issue("list", <<page>>)
    /\ pages' = pages + 1
    /\ \E codes \in PagesFor(program, campaign, pages) :
         LET items == [i \in 1..Len(codes) |-> seller_item(codes[i])]
             n == Len(product_list) + Len(items)
         IN  \E tot \in {t \in {n - 1, n, n + 1} : t >= 0} :
               /\ product_list' = product_list \o items
               /\ total' = tot
               /\ page' = IF codes = <<>> THEN "" ELSE codes[Len(codes)]
               /\ IF tot = Len(product_list')
                  THEN ReturnOfferIds([i \in 1..n |-> product_list'[i].offer_id])
                  ELSE UNCHANGED <<pc, m_offer_ids, built>>
    /\ UNCHANGED <<program, m_watch_remnants, campaign, batches, raised,
                   reported, bvars, cvars, dvars>>

\* market.py: one turn of the while loop of get_offer_ids, the request
\* answered with a page and its nextPageToken.
MarketGetProductList ==
    /\ program = "market" /\ pc = "get_offer_ids" /\ pages < MaxPages
    /\ Issue("list", <<page>>)
    /\ pages' = pages + 1
    /\ \E codes \in PagesFor(program, campaign, pages), token \in Tokens :
         LET items == [i \in 1..Len(codes) |-> market_entry(codes[i])] IN
         /\ product_list' = product_list \o items
         /\ page' = token
         /\ IF Falsy(page')
            THEN ReturnOfferIds([i \in 1..Len(product_list') |->
                                    product_list'[i].offer.shopSku])
            ELSE UNCHANGED <<pc, m_offer_ids, built>>
    /\ UNCHANGED <<program, m_watch_remnants, campaign, total, batches, raised,
                   reported, bvars, cvars, dvars>>

\* A list request fails: get_product_list raises, through get_offer_ids.
GetProductListFails ==
    /\ pc = "get_offer_ids" /\ pages < MaxPages
    /\ Issue("list", <<page>>)
    /\ pages' = pages + 1
    /\ \E exc \in RequestErrors : Except(exc)
    /\ UNCHANGED <<program, m_watch_remnants, campaign, page, total,
                   product_list, m_offer_ids, batches, built, bvars, cvars,
                   dvars>>

\* stocks = create_stocks(...) and list(divide(stocks, limit)) of the loop
\* that follows; a quantity that is no integer raises ValueError.
CreateStocks ==
    /\ pc = "create_stocks"
    /\ \E date \in (IF campaign = "DBS" THEN Dates ELSE {"t0"}) :
         LET r == create_stocks(program, m_watch_remnants, m_offer_ids,
                                warehouse_id(campaign), date)
         IN  /\ m_offer_ids' = r.offer_ids
             /\ IF r.raised
                THEN /\ Except("ValueError")
                     /\ UNCHANGED <<batches, built>>
                ELSE /\ built' = [built EXCEPT ![campaign].stocks = r.value,
                                               ![campaign].stocked = TRUE]
                     /\ batches' = divide(r.value, stocks_limit(program))
                     /\ pc' = "update_stocks"
                     /\ UNCHANGED <<raised, reported>>
    /\ UNCHANGED <<program, m_watch_remnants, campaign, page, total, pages,
                   product_list, requests, bvars, cvars, dvars>>

\* update_stocks(some_stock, ...) answered.
UpdateStocks ==
    /\ pc = "update_stocks" /\ batches # <<>>
    /\ Issue("stocks", Head(batches))
    /\ batches' = Tail(batches)
    /\ UNCHANGED <<program, m_watch_remnants, pc, campaign, page, total, pages,
                   product_list, m_offer_ids, raised, reported, built, bvars,
                   cvars, dvars>>

\* update_stocks(some_stock, ...) fails.
UpdateStocksFails ==
    /\ pc = "update_stocks" /\ batches # <<>>
    /\ Issue("stocks", Head(batches))
    /\ \E exc \in RequestErrors : Except(exc)
    /\ UNCHANGED <<program, m_watch_remnants, campaign, page, total, pages,
                   product_list, m_offer_ids, batches, built, bvars, cvars,
                   dvars>>

\* seller.py, after the stocks loop: prices = create_prices(watch_remnants,
\* offer_ids), with offer_ids as create_stocks left it, and
\* list(divide(prices, 900)).
SellerCreatePrices ==
    /\ program = "seller" /\ pc = "update_stocks" /\ batches = <<>>
    /\ LET r == create_prices("seller", m_watch_remnants, m_offer_ids) IN
       IF r.raised
       THEN /\ Except("ValueError")
            /\ UNCHANGED <<batches, built>>
       ELSE /\ built' = [built EXCEPT ![campaign].prices = r.value,
                                      ![campaign].priced = TRUE]
            /\ batches' = divide(r.value, SellerPricesLimit)
            /\ pc' = "update_price"
            /\ UNCHANGED <<raised, reported>>
    /\ UNCHANGED <<program, m_watch_remnants, campaign, page, total, pages,
                   product_list, m_offer_ids, requests, bvars, cvars, dvars>>

\* seller.py: update_price(some_price, ...) answered.
UpdatePrice ==
    /\ pc = "update_price" /\ batches # <<>>
    /\ Issue("prices", Head(batches))
    /\ batches' = Tail(batches)
    /\ UNCHANGED <<program, m_watch_remnants, pc, campaign, page, total, pages,
                   product_list, m_offer_ids, raised, reported, built, bvars,
                   cvars, dvars>>

\* seller.py: update_price(some_price, ...) fails.
UpdatePriceFails ==
    /\ pc = "update_price" /\ batches # <<>>
    /\ Issue("prices", Head(batches))
    /\ \E exc \in RequestErrors : Except(exc)
    /\ UNCHANGED <<program, m_watch_remnants, campaign, page, total, pages,
                   product_list, m_offer_ids, batches, built, bvars, cvars,
                   dvars>>

\* seller.py: the prices loop is over and main returns.
SellerReturn ==
    /\ program = "seller" /\ pc = "update_price" /\ batches = <<>>
    /\ pc' = "done"
    /\ UNCHANGED <<program, m_watch_remnants, campaign, page, total, pages,
                   product_list, m_offer_ids, batches, requests, raised,
                   reported, built, bvars, cvars, dvars>>

\* market.py, after the stocks loop: upload_prices(watch_remnants, campaign,
\* market_token).  upload_prices is an async def and main does not await the
\* call: it makes a coroutine object whose body never runs, so no offer is
\* listed, no price is built and no price is sent.  main goes on to the DBS
\* campaign (get_offer_ids starts with page "" and an empty product_list), or
\* returns.
MarketUploadPrices ==
    /\ program = "market" /\ pc = "update_stocks" /\ batches = <<>>
    /\ IF campaign = "FBS"
       THEN /\ campaign' = "DBS"
            /\ pc' = "get_offer_ids"
            /\ page' = "" /\ product_list' = <<>> /\ pages' = 0
       ELSE /\ pc' = "done"
            /\ UNCHANGED <<campaign, page, product_list, pages>>
    /\ UNCHANGED <<program, m_watch_remnants, total, m_offer_ids, batches,
                   requests, raised, reported, built, bvars, cvars, dvars>>

Next ==
    \/ SellerGetProductList
    \/ MarketGetProductList
    \/ GetProductListFails
    \/ CreateStocks
    \/ UpdateStocks
    \/ UpdateStocksFails
    \/ SellerCreatePrices
    \/ UpdatePrice
    \/ UpdatePriceFails
    \/ SellerReturn
    \/ MarketUploadPrices

Spec == Init /\ [][Next]_vars

(***************************************************************************)
(* Claims about a run of main (under Spec).                                *)
(***************************************************************************)
\* C2: in a run of seller.main the price list holds one price record for
\* every supplier record whose code is in the list get_offer_ids returned;
\* offers X, Y and the supplier record X "100.00 руб." give the price X "100".
C2_PricesForResolvedOffers ==
    (program = "seller" /\ built["ozon"].priced) =>
        LET original == built["ozon"].offer_ids
            prices == built["ozon"].prices
            Matched(watch) == Contains(original, watch.code)
            matched == SelectSeq(m_watch_remnants, Matched)
        IN  /\ [i \in 1..Len(prices) |-> prices[i].offer_id]
                 = [i \in 1..Len(matched) |-> matched[i].code]
            /\ (original = <<"X", "Y">> /\ Len(m_watch_remnants) = 1) =>
                 /\ Len(prices) = 1
                 /\ prices[1].offer_id = "X"
                 /\ prices[1].price = <<"1", "0", "0">>

AccountsOf(prog) == IF prog = "seller" THEN {"ozon"} ELSE {"FBS", "DBS"}

Rank(op) == CASE op = "list" -> 1 [] op = "stocks" -> 2 [] op = "prices" -> 3

Bodies(reqs, op) ==
    LET IsOp(r) == r.op = op
        sel == SelectSeq(reqs, IsOp)
    IN  Concat([i \in 1..Len(sel) |-> sel[i].body])

\* C3: when main has returned and no request has failed, every account has
\* had, in this order, its list requests, the stock requests that carry the
\* stock records built for it, and the price requests that carry the price
\* records built for it, the FBS account before the DBS account.
C3_ListStocksPricesInOrder ==
    (pc = "done" /\ raised = "none") =>
        /\ \A a \in AccountsOf(program) :
             LET Mine(r) == r.campaign = a
                 mine == SelectSeq(requests, Mine)
             IN  /\ mine # <<>> /\ mine[1].op = "list"
                 /\ \A i, j \in 1..Len(mine) :
                       i < j => Rank(mine[i].op) <= Rank(mine[j].op)
                 /\ built[a].stocked
                 /\ Bodies(mine, "stocks") = built[a].stocks
                 /\ built[a].priced
                 /\ Bodies(mine, "prices") = built[a].prices
        /\ \A i, j \in 1..Len(requests) :
             i < j => ~(requests[i].campaign = "DBS"
                        /\ requests[j].campaign = "FBS")

IsPrefix(s, t) == Len(s) <= Len(t) /\ SubSeq(t, 1, Len(s)) = s

\* C5: the requests issued are never taken back; the step in which a request
\* fails issues that one request, ends main (it has returned, not raised) and
\* has the failure reported; and once an exception has been raised in the run
\* no request is issued any more.
C5_FailureEndsRun ==
    [][ /\ IsPrefix(requests, requests')
        /\ raised # "none" => requests' = requests
        /\ (raised = "none" /\ raised' \in RequestErrors) =>
              /\ Len(requests') = Len(requests) + 1
              /\ pc' = "done"
              /\ reported' = report(raised')
        /\ raised' # "none" => pc' = "done" /\ reported' # "none"
      ]_vars

\* C5's case: the stock request of the DBS campaign failed after the stock
\* request of the FBS campaign had succeeded; main has returned.
C5_Witness ==
    /\ program = "market" /\ campaign = "DBS"
    /\ raised = "HTTPError" /\ reported = "ERROR_2" /\ pc = "done"
    /\ requests[Len(requests)].op = "stocks"
    /\ requests[Len(requests)].campaign = "DBS"
    /\ \E i \in 1..Len(requests) :
         /\ requests[i].op = "stocks" /\ requests[i].campaign = "FBS"
         /\ requests[i].body = built["FBS"].stocks
         /\ requests[i].body # <<>>

\* C6: a turn of the loop of get_offer_ids whose page signals that there are
\* no further pages is the last one: in market.py the next-page token is empty
\* or absent, in seller.py the accumulated count did not grow or equals the
\* declared total.
C6_LoopEndsWhenSignalled ==
    [][ (pc = "get_offer_ids" /\ pages' = pages + 1 /\ raised' = "none") =>
          ((IF program = "seller"
            THEN \/ Len(product_list') = Len(product_list)
                 \/ total' = Len(product_list')
            ELSE Falsy(page'))
           => pc' # "get_offer_ids")
      ]_vars

\* The limit of a call site: the program and the kind of update request.
LimitOf(prog, op) ==
    IF prog = "seller"
    THEN (IF op = "stocks" THEN SellerStocksLimit ELSE SellerPricesLimit)
    ELSE (IF op = "stocks" THEN MarketStocksLimit ELSE MarketPricesLimit)

UpdateOps == {"stocks", "prices"}

\* The list built for account a that requests of kind op carry.
BuiltList(a, op) == IF op = "stocks" THEN built[a].stocks ELSE built[a].prices

====
